---- MODULE Spec2Model ----
(***************************************************************************)
(* Model of rust-transmission-controller's configuration loader            *)
(* (src/config.rs) and e-mail notification helpers (src/email.rs).         *)
(*                                                                         *)
(* Every function of the two files is a synchronous call, so the model is  *)
(* a call/return machine: a state holds the operation being called (op),   *)
(* its input (arg), the position of the call (pc) and what it returned     *)
(* (ret).  Strings are sequences of one-character strings.                 *)
(***************************************************************************)
EXTENDS Integers, Sequences, FiniteSets, TLC

VARIABLES op, arg, pc, ret

vars == <<op, arg, pc, ret>>

\* ------------------------------------------------------------------ bounds

\* Longest string drawn for a string field of Config.
MaxStr == 2
\* Most keys of a JSON object handed to preprocess_config.
MaxKeys == 3

\* ------------------------------------------------------- string primitives

\* All strings over the alphabet A of length at most n.
Strs(A, n) == UNION {[1..k -> A] : k \in 0..n}

\* Characters str::trim() removes (the ASCII part of Unicode White_Space).
White == {" ", "\t", "\n", "\r"}

\* s[i..] (1-based), empty when i is past the end.
Drop(s, i) == SubSeq(s, i, Len(s))

\* str::starts_with
StartsWith(s, p) == Len(s) >= Len(p) /\ SubSeq(s, 1, Len(p)) = p

\* str::find(p).is_some()
\* Variant: str::starts_with in place of str::find.
ContainsAtStart(s, p) == Len(s) >= Len(p) /\ SubSeq(s, 1, Len(p)) = p
Contains(s, p) == \E i \in 1..(Len(s) - Len(p) + 1) : SubSeq(s, i, i + Len(p) - 1) = p

\* str::trim_right_matches(|c| c \in cs)
RECURSIVE TrimRight(_, _)
TrimRight(s, cs) ==
    IF s # <<>> /\ s[Len(s)] \in cs THEN TrimRight(SubSeq(s, 1, Len(s) - 1), cs) ELSE s

\* str::trim_left_matches(|c| c \in cs)
RECURSIVE TrimLeft(_, _)
TrimLeft(s, cs) == IF s # <<>> /\ Head(s) \in cs THEN TrimLeft(Tail(s), cs) ELSE s

\* str::trim()
Trim(s) == TrimRight(TrimLeft(s, White), White)

\* str::replace(from, to) for a non-empty pattern: successive non-overlapping
\* matches, leftmost first, each replaced by `to`; the text put in is not
\* searched again by the same call.
RECURSIVE Replace(_, _, _)
\* Variant: str::replacen(from, to, 1), only the leftmost match replaced.
ReplaceFirstOnly(s, from, to) ==
    IF \E i \in 1..(Len(s) - Len(from) + 1) : SubSeq(s, i, i + Len(from) - 1) = from
    THEN LET i == CHOOSE i \in 1..(Len(s) - Len(from) + 1) :
                      /\ SubSeq(s, i, i + Len(from) - 1) = from
                      /\ \A j \in 1..(i - 1) : SubSeq(s, j, j + Len(from) - 1) # from
         IN SubSeq(s, 1, i - 1) \o to \o Drop(s, i + Len(from))
    ELSE s
Replace(s, from, to) ==
    IF Len(s) < Len(from) THEN s
    ELSE IF StartsWith(s, from) THEN to \o Replace(Drop(s, Len(from) + 1), from, to)
    ELSE <<Head(s)>> \o Replace(Tail(s), from, to)

\* Byte order of the characters that occur in object keys ('-' 0x2D < '_' 0x5F
\* < 'a' 0x61 < ... < 'z' 0x7A): String's Ord, which orders a BTreeMap's keys.
ByteOrder ==
    <<"-", "_", "a", "b", "c", "d", "e", "f", "g", "h", "i", "j", "k", "l", "m",
      "n", "o", "p", "q", "r", "s", "t", "u", "v", "w", "x", "y", "z">>

Ord(c) == CHOOSE i \in 1..Len(ByteOrder) : ByteOrder[i] = c

\* s < t as Strings (lexicographic by byte).
StrLess(s, t) ==
    \E i \in 1..Len(t) :
        /\ \A j \in 1..(i - 1) : j <= Len(s) /\ s[j] = t[j]
        /\ (i > Len(s) \/ Ord(s[i]) < Ord(t[i]))

\* The elements of a set of strings in ascending order: BTreeMap::keys().
RECURSIVE Ascending(_)
Ascending(S) ==
    IF S = {} THEN <<>>
    ELSE LET m == CHOOSE m \in S : \A k \in S \ {m} : StrLess(m, k)
         IN <<m>> \o Ascending(S \ {m})

\* ------------------------------------------------------------------- Json

JNull == [t |-> "Null"]
JBool(b) == [t |-> "Boolean", v |-> b]
JStr(s) == [t |-> "String", v |-> s]
JU64(n) == [t |-> "U64", v |-> n]
\* Json::Object: a BTreeMap<String, Json>, as a function on its key set.
JObj(f) == [t |-> "Object", v |-> f]

\* BTreeMap::remove then BTreeMap::insert
MapRemove(f, k) == [x \in (DOMAIN f) \ {k} |-> f[x]]
MapInsert(f, k, val) == [x \in (DOMAIN f) \cup {k} |-> IF x = k THEN val ELSE f[x]]

\* --------------------------------------------------------------- results

Ok(val) == [tag |-> "Ok", val |-> val]
\* kind: the ConfigReadingError variant (or "Generic" for GenericResult's boxed
\* error); msg: the message text; detail: the value formatted into it.
Err(kind, msg, detail) == [tag |-> "Err", kind |-> kind, msg |-> msg, detail |-> detail]
NoRet == [tag |-> "None"]

\* ------------------------------------------------------------ config.rs

\* The fields of struct Config in declaration order, which is the order the
\* derived Decodable reads them in: the name looked up in the object, and the
\* field's type.
ConfigFields ==
    <<[name |-> <<"d", "o", "w", "n", "l", "o", "a", "d", "_", "d", "i", "r">>,
       ty |-> "String"],
      [name |-> <<"r", "p", "c", "_", "e", "n", "a", "b", "l", "e", "d">>,
       ty |-> "bool"],
      [name |-> <<"r", "p", "c", "_", "b", "i", "n", "d", "_", "a", "d", "d", "r", "e", "s", "s">>,
       ty |-> "String"],
      [name |-> <<"r", "p", "c", "_", "p", "o", "r", "t">>,
       ty |-> "u32"],
      [name |-> <<"r", "p", "c", "_", "a", "u", "t", "h", "e", "n", "t", "i", "c", "a", "t", "i", "o", "n", "_", "r", "e", "q", "u", "i", "r", "e", "d">>,
       ty |-> "bool"],
      [name |-> <<"r", "p", "c", "_", "u", "r", "l">>,
       ty |-> "String"],
      [name |-> <<"r", "p", "c", "_", "u", "s", "e", "r", "n", "a", "m", "e">>,
       ty |-> "String"],
      [name |-> <<"r", "p", "c", "_", "p", "l", "a", "i", "n", "_", "p", "a", "s", "s", "w", "o", "r", "d">>,
       ty |-> "Option<String>"]>>

\* Option<String>::None
None == [some |-> FALSE]
Some(s) == [some |-> TRUE, v |-> s]

\* Decodable::decode of one value of the field type `ty` from the Json j: the
\* decoded value, or DecoderError::ExpectedError.  (The documents of this model
\* hold no floats, negative numbers or numeric strings, which read_u32 would
\* convert.)
DecodeValue(ty, j) ==
    CASE ty = "String" -> IF j.t = "String" THEN Ok(j.v) ELSE Err("ExpectedError", "String", <<>>)
      [] ty = "bool" -> IF j.t = "Boolean" THEN Ok(j.v) ELSE Err("ExpectedError", "Boolean", <<>>)
      [] ty = "u32" -> IF j.t = "U64" THEN Ok(j.v) ELSE Err("ExpectedError", "Number", <<>>)
      [] ty = "Option<String>" ->
            IF j.t = "Null" THEN Ok(None)
            ELSE IF j.t = "String" THEN Ok(Some(j.v))
            ELSE Err("ExpectedError", "String", <<>>)

\* Decoder::read_struct_field: an absent key is decoded as Null, so that an
\* Option field becomes None; any failure of that is MissingFieldError(name).
DecodeField(obj, f) ==
    IF f.name \in DOMAIN obj THEN DecodeValue(f.ty, obj[f.name])
    ELSE IF DecodeValue(f.ty, JNull).tag = "Ok" THEN DecodeValue(f.ty, JNull)
    ELSE Err("MissingFieldError", "", f.name)

\* impl From<json::DecoderError> for ConfigReadingError
FromDecoderError(e) ==
    IF e.kind = "MissingFieldError" THEN Err("ParseError", "'{}' option is missing", e.detail)
    ELSE Err("ParseError", "JSON validation error", <<>>)

\* Decodable::decode::<Config>: the fields in declaration order, the first
\* failure returned; keys that name no field are ignored.
Decode(json) ==
    IF json.t # "Object" THEN Err("ExpectedError", "Object", <<>>)
    ELSE LET r == [i \in 1..Len(ConfigFields) |-> DecodeField(json.v, ConfigFields[i])]
             bad == {i \in 1..Len(ConfigFields) : r[i].tag = "Err"}
         IN IF bad # {} THEN r[CHOOSE i \in bad : \A j \in bad : i <= j]
            ELSE Ok([download_dir |-> r[1].val,
                     rpc_enabled |-> r[2].val,
                     rpc_bind_address |-> r[3].val,
                     rpc_port |-> r[4].val,
                     rpc_authentication_required |-> r[5].val,
                     rpc_url |-> r[6].val,
                     rpc_username |-> r[7].val,
                     rpc_plain_password |-> r[8].val])

\* The loop of preprocess_config over the snapshot `keys` of the object's keys:
\* a key holding "-" is removed and its value inserted under key.replace("-", "_").
\* obj.remove(&key).unwrap() panics on a key no longer there.
RECURSIVE RewriteKeys(_, _)
\* Variant: a destination key already present keeps its value
\* (entry(..).or_insert(value) in place of insert).
RewriteKeysKeepExisting(obj, keys) ==
    LET step[i \in 0..Len(keys)] ==
            IF i = 0 THEN obj
            ELSE LET key == keys[i]
                     cur == step[i - 1]
                     to == Replace(key, <<"-">>, <<"_">>)
                 IN IF Contains(key, <<"-">>) /\ key \in DOMAIN cur
                    THEN IF to \in DOMAIN cur THEN MapRemove(cur, key)
                         ELSE MapInsert(MapRemove(cur, key), to, cur[key])
                    ELSE cur
    IN [panic |-> FALSE, obj |-> step[Len(keys)]]
RewriteKeys(obj, keys) ==
    IF keys = <<>> THEN [panic |-> FALSE, obj |-> obj]
    ELSE LET key == Head(keys)
         IN IF Contains(key, <<"-">>)
            THEN IF key \notin DOMAIN obj THEN [panic |-> TRUE, obj |-> obj]
                 ELSE RewriteKeys(MapInsert(MapRemove(obj, key),
                                            Replace(key, <<"-">>, <<"_">>), obj[key]),
                                  Tail(keys))
            ELSE RewriteKeys(obj, Tail(keys))

\* preprocess_config(&mut json): the result and the document as it leaves it.
preprocess_config(json) ==
    IF json.t # "Object"
    THEN [ret |-> Err("ParseError", "JSON root element in not an object", <<>>),
          json |-> json]
    ELSE LET r == RewriteKeys(json.v, Ascending(DOMAIN json.v))
         IN [ret |-> IF r.panic THEN [tag |-> "Panic"] ELSE Ok(<<>>), json |-> JObj(r.obj)]

\* validate_config(&config)
ValidationError(msg) == Err("ValidationError", msg, <<>>)

\* Variant: the rpc_enabled rule checked before the download_dir rule.
validate_config_rpc_first(config) ==
    IF ~config.rpc_enabled
    THEN ValidationError("RPC is disabled in config")
    ELSE IF ~StartsWith(config.download_dir, <<"/">>)
    THEN ValidationError("Invalid 'download-dir' value: it must be an absolute path")
    ELSE IF Trim(config.rpc_bind_address) = <<>>
    THEN ValidationError("Invalid 'rpc-bind-address' value: it mustn't be empty")
    ELSE IF config.rpc_authentication_required /\ ~config.rpc_plain_password.some
    THEN ValidationError("'rpc-plain-password' is a required option when authentication is enabled")
    ELSE Ok(<<>>)

\* Variant: the rpc_bind_address rule left out.
validate_config_no_bind_check(config) ==
    IF ~StartsWith(config.download_dir, <<"/">>)
    THEN ValidationError("Invalid 'download-dir' value: it must be an absolute path")
    ELSE IF ~config.rpc_enabled
    THEN ValidationError("RPC is disabled in config")
    ELSE IF config.rpc_authentication_required /\ ~config.rpc_plain_password.some
    THEN ValidationError("'rpc-plain-password' is a required option when authentication is enabled")
    ELSE Ok(<<>>)

\* Variant: the rpc_enabled rule checked after the rpc_bind_address rule.
validate_config_rpc_late(config) ==
    IF ~StartsWith(config.download_dir, <<"/">>)
    THEN ValidationError("Invalid 'download-dir' value: it must be an absolute path")
    ELSE IF Trim(config.rpc_bind_address) = <<>>
    THEN ValidationError("Invalid 'rpc-bind-address' value: it mustn't be empty")
    ELSE IF ~config.rpc_enabled
    THEN ValidationError("RPC is disabled in config")
    ELSE IF config.rpc_authentication_required /\ ~config.rpc_plain_password.some
    THEN ValidationError("'rpc-plain-password' is a required option when authentication is enabled")
    ELSE Ok(<<>>)

validate_config(config) ==
    IF ~StartsWith(config.download_dir, <<"/">>)
    THEN ValidationError("Invalid 'download-dir' value: it must be an absolute path")
    ELSE IF ~config.rpc_enabled
    THEN ValidationError("RPC is disabled in config")
    ELSE IF Trim(config.rpc_bind_address) = <<>>
    THEN ValidationError("Invalid 'rpc-bind-address' value: it mustn't be empty")
    ELSE IF config.rpc_authentication_required /\ ~config.rpc_plain_password.some
    THEN ValidationError("'rpc-plain-password' is a required option when authentication is enabled")
    ELSE Ok(<<>>)

\* read_config(path): each try! returns the first failure.
read_config(file) ==
    IF ~file.open THEN Err("IoError", "open", <<>>)
    ELSE IF file.content.t = "IoError" THEN Err("IoError", "read", <<>>)
    ELSE IF file.content.t = "SyntaxError" THEN Err("ParseError", "error_str(code)", <<>>)
    ELSE LET pre == preprocess_config(file.content)
         IN IF pre.ret.tag # "Ok" THEN pre.ret
            ELSE LET dec == Decode(pre.json)
                 IN IF dec.tag = "Err" THEN FromDecoderError(dec)
                    ELSE LET val == validate_config(dec.val)
                         IN IF val.tag = "Err" THEN val ELSE Ok(dec.val)

\* ------------------------------------------------- inputs of config.rs

DirChars == {"/", "d"}
AddrChars == {" ", "h"}

\* Decoded Config records handed to validate_config.
Configs ==
    [download_dir : Strs(DirChars, MaxStr),
     rpc_enabled : BOOLEAN,
     rpc_bind_address : Strs(AddrChars, MaxStr),
     rpc_port : {9091},
     rpc_authentication_required : BOOLEAN,
     rpc_url : {<<"/">>},
     rpc_username : {<<"u">>},
     rpc_plain_password : {None, Some(<<>>), Some(<<"p">>)}]

\* How a config file spells a field name: as the struct does, with every "_"
\* written "-" (the convention of the files), or with only the "rpc_" prefix
\* written "rpc-".
Spellings == {"underscore", "hyphen", "mixed"}

Spell(sp, name) ==
    CASE sp = "underscore" -> name
      [] sp = "hyphen" -> Replace(name, <<"_">>, <<"-">>)
      [] sp = "mixed" -> Replace(name, <<"c", "_">>, <<"c", "-">>)

\* The Json value a config file gives field i of the Config c.
FieldJson(c, i) ==
    CASE i = 1 -> JStr(c.download_dir)
      [] i = 2 -> JBool(c.rpc_enabled)
      [] i = 3 -> JStr(c.rpc_bind_address)
      [] i = 4 -> JU64(c.rpc_port)
      [] i = 5 -> JBool(c.rpc_authentication_required)
      [] i = 6 -> JStr(c.rpc_url)
      [] i = 7 -> JStr(c.rpc_username)
      [] i = 8 -> IF c.rpc_plain_password.some THEN JStr(c.rpc_plain_password.v) ELSE JNull

\* A value of the wrong type for field i.
WrongJson(i) == IF ConfigFields[i].ty = "bool" THEN JU64(1) ELSE JBool(TRUE)

AllFields == 1..Len(ConfigFields)

\* Key of field i under spelling sp.
SpelledKey == [sp \in Spellings |-> [i \in AllFields |-> Spell(sp, ConfigFields[i].name)]]

\* The document that spells the fields `present` of c with spelling sp, field
\* `wrong` (0: none) holding a value of the wrong type.
ConfigDoc(c, sp, present, wrong) ==
    LET keys == {SpelledKey[sp][i] : i \in present}
        field(k) == CHOOSE i \in present : SpelledKey[sp][i] = k
    IN JObj([k \in keys |-> IF field(k) = wrong THEN WrongJson(wrong)
                            ELSE FieldJson(c, field(k))])

\* An absent password is written by leaving the key out.
Written(c) == IF c.rpc_plain_password.some THEN AllFields ELSE AllFields \ {8}

\* The hyphen-spelled document of c with a second, underscore-spelled
\* "rpc_enabled": true beside its "rpc-enabled".
ShadowedDoc(c) ==
    JObj(MapInsert(ConfigDoc(c, "hyphen", Written(c), 0).v, ConfigFields[2].name, JBool(TRUE)))

\* The ways a config file of the model is written from a Config c: Written(c)
\* under each spelling; hyphen-spelled with one field left out, or with one
\* field of the wrong type, or with the shadowing key; or not from c at all:
\* a root that is no object, a file that cannot be parsed, read or opened.
Variants ==
    [kind : {"spelled"}, sp : Spellings]
    \cup [kind : {"without", "wrong"}, i : AllFields]
    \cup [kind : {"shadowed", "unreadable", "syntax", "missing"}]
    \cup [kind : {"root"}, json : {JNull, JStr(<<"d">>), JU64(1), JBool(TRUE)}]

\* A config file as read_config meets it: whether File::open succeeds, and
\* what Json::from_reader makes of the content: a Json value, or
\* [t |-> "SyntaxError"] / [t |-> "IoError"] for a ParserError.
FileOf(c, w) ==
    CASE w.kind = "spelled" -> [open |-> TRUE, content |-> ConfigDoc(c, w.sp, Written(c), 0)]
      [] w.kind = "without" ->
            [open |-> TRUE, content |-> ConfigDoc(c, "hyphen", AllFields \ {w.i}, 0)]
      [] w.kind = "wrong" -> [open |-> TRUE, content |-> ConfigDoc(c, "hyphen", AllFields, w.i)]
      [] w.kind = "shadowed" -> [open |-> TRUE, content |-> ShadowedDoc(c)]
      [] w.kind = "root" -> [open |-> TRUE, content |-> w.json]
      [] w.kind = "unreadable" -> [open |-> TRUE, content |-> [t |-> "IoError"]]
      [] w.kind = "syntax" -> [open |-> TRUE, content |-> [t |-> "SyntaxError"]]
      [] w.kind = "missing" -> [open |-> FALSE, content |-> JNull]

\* Documents handed to preprocess_config: objects of at most MaxKeys keys over
\* KeyChars; the value under key k is the string k itself, or an object with
\* the one key k, so that a value tells which key it was written under.
KeyChars == {"-", "_"}
MaxKeyLen == 2
DocKeys == Strs(KeyChars, MaxKeyLen)

\* The object with the keys D, those of N holding objects.
DocOf(D, N) == JObj([k \in D |-> IF k \in N THEN JObj([x \in {k} |-> JNull]) ELSE JStr(k)])

\* ------------------------------------------------ the calls of config.rs

InitConfig ==
    /\ pc = "call"
    /\ ret = NoRet
    /\ \/ op = "validate_config" /\ arg \in Configs
       \/ op = "read_config" /\ \E c \in Configs, w \in Variants : arg = FileOf(c, w)
       \/ op = "preprocess_config" /\ arg \in {JNull, JStr(<<"-">>)}
       \/ /\ op = "preprocess_config"
          /\ \E D \in SUBSET DocKeys :
                /\ Cardinality(D) <= MaxKeys
                /\ \E N \in SUBSET D : arg = DocOf(D, N)

Return(r) == pc' = "done" /\ ret' = r /\ UNCHANGED <<op, arg>>

ValidateConfig == pc = "call" /\ op = "validate_config" /\ Return(validate_config(arg))

ReadConfig == pc = "call" /\ op = "read_config" /\ Return(read_config(arg))

\* ret holds the call's result and the document as the call left it.
PreprocessConfig == pc = "call" /\ op = "preprocess_config" /\ Return(preprocess_config(arg))

NextConfig == ValidateConfig \/ ReadConfig \/ PreprocessConfig

SpecConfig == InitConfig /\ [][NextConfig]_vars

Returned(o) == pc = "done" /\ op = o

\* ------------------------------------------------- properties: config.rs

\* The four rules of validation, each stated on the field it reads: whether
\* config c violates rule n.
Violates(c, n) ==
    CASE n = 1 -> c.download_dir = <<>> \/ c.download_dir[1] # "/"
      [] n = 2 -> c.rpc_enabled = FALSE
      [] n = 3 -> \A i \in 1..Len(c.rpc_bind_address) : c.rpc_bind_address[i] \in White
      [] n = 4 -> c.rpc_authentication_required /\ c.rpc_plain_password = None

RuleMessage ==
    <<"Invalid 'download-dir' value: it must be an absolute path",
      "RPC is disabled in config",
      "Invalid 'rpc-bind-address' value: it mustn't be empty",
      "'rpc-plain-password' is a required option when authentication is enabled">>

Violated(c) == {n \in 1..Len(RuleMessage) : Violates(c, n)}

\* C1: validate_config returns the ValidationError of the first violated rule
\* in the order download_dir, rpc_enabled, rpc_bind_address, rpc_plain_password,
\* whatever later rules are violated too, and success only when none is.
C1_FirstViolatedRule ==
    Returned("validate_config") =>
        IF Violated(arg) = {} THEN ret = Ok(<<>>)
        ELSE ret = Err("ValidationError",
                       RuleMessage[CHOOSE n \in Violated(arg) : \A m \in Violated(arg) : n <= m],
                       <<>>)

\* C1's case: validation has run on a config that violates the rpc_enabled
\* rule and a rule after it, but not the download_dir rule.
C1_Witness ==
    /\ Returned("validate_config")
    /\ Violated(arg) = {2, 3, 4}
    /\ ret.msg = RuleMessage[2]

\* C2: a Config that read_config returns as a success violates none of the four
\* rules, and validate_config accepts it.
C2_ReadConfigValidated ==
    (Returned("read_config") /\ ret.tag = "Ok") =>
        /\ Violated(ret.val) = {}
        /\ validate_config(ret.val) = Ok(<<>>)

\* C2's case: read_config has succeeded on a file written with hyphenated keys,
\* with authentication required.
C2_Witness ==
    /\ Returned("read_config")
    /\ ret.tag = "Ok"
    /\ ret.val.rpc_authentication_required
    /\ \E k \in DOMAIN arg.content.v : \E i \in 1..Len(k) : k[i] = "-"

\* C3 as claimed: a config with rpc_enabled = false fails with "RPC is disabled
\* in config" for every combination of the other fields.
C3_Original ==
    (Returned("validate_config") /\ ~arg.rpc_enabled) => ret = ValidationError(RuleMessage[2])

\* C3 amended: a config with rpc_enabled = false always fails validation; the
\* message is "RPC is disabled in config" whenever download_dir starts with
\* "/", for every combination of the remaining fields, and the download-dir
\* message otherwise.
C3_RpcDisabledFails ==
    (Returned("validate_config") /\ ~arg.rpc_enabled) =>
        /\ ret.tag = "Err"
        /\ ret.kind = "ValidationError"
        /\ ret.msg = IF arg.download_dir # <<>> /\ arg.download_dir[1] = "/"
                     THEN RuleMessage[2] ELSE RuleMessage[1]

\* C3's case: RPC disabled, an absolute download_dir, a blank bind address.
C3_Witness ==
    /\ Returned("validate_config")
    /\ ~arg.rpc_enabled
    /\ arg.download_dir = <<"/", "d">>
    /\ arg.rpc_bind_address = <<" ">>
    /\ ret.msg = RuleMessage[2]

HasHyphen(k) == \E i \in 1..Len(k) : k[i] = "-"

\* The key with every hyphen written as an underscore.
Underscored(k) == [i \in 1..Len(k) |-> IF k[i] = "-" THEN "_" ELSE k[i]]

\* Whether some object key of j, at any depth, holds a hyphen.
RECURSIVE HyphenKeyAnywhere(_)
HyphenKeyAnywhere(j) ==
    /\ j.t = "Object"
    /\ \E k \in DOMAIN j.v : HasHyphen(k) \/ HyphenKeyAnywhere(j.v[k])

PreprocessedObject == Returned("preprocess_config") /\ arg.t = "Object"

\* C4 as claimed: after preprocessing a document with an object root no object
\* key at any depth holds a hyphen.
C4_Original == PreprocessedObject => ~HyphenKeyAnywhere(ret.json)

\* C4 amended: after preprocessing a document with an object root the keys of
\* the root are the original root keys with each hyphen replaced by an
\* underscore, so no root key holds a hyphen; the values, nested objects and
\* their keys included, are values of the original, unchanged.
C4_TopLevelKeysRewritten ==
    PreprocessedObject =>
        /\ ret.ret = Ok(<<>>)
        /\ DOMAIN ret.json.v = {Underscored(k) : k \in DOMAIN arg.v}
        /\ \A k \in DOMAIN ret.json.v :
              /\ ~HasHyphen(k)
              /\ \E k0 \in DOMAIN arg.v : Underscored(k0) = k /\ ret.json.v[k] = arg.v[k0]

\* C4's case: a root key with a hyphen after its first character, holding an
\* object whose key has a hyphen, has been rewritten.
C4_Witness ==
    /\ PreprocessedObject
    /\ <<"_", "-">> \in DOMAIN arg.v
    /\ arg.v[<<"_", "-">>].t = "Object"
    /\ ret.json.v[<<"_", "_">>] = arg.v[<<"_", "-">>]

\* C9: preprocessing is idempotent on documents with an object root:
\* preprocessing the preprocessed document changes nothing, and a document with
\* no hyphenated key is returned unchanged.
C9_Idempotent ==
    PreprocessedObject =>
        /\ preprocess_config(ret.json) = [ret |-> Ok(<<>>), json |-> ret.json]
        /\ (~HyphenKeyAnywhere(arg) => ret.json = arg)

\* C9's case: preprocessing changed a document whose key holds two hyphens.
C9_Witness ==
    /\ PreprocessedObject
    /\ <<"-", "-">> \in DOMAIN arg.v
    /\ ret.json # arg

\* The hyphenated keys of object f that are rewritten to key d.
Sources(f, d) == {k \in DOMAIN f : HasHyphen(k) /\ Underscored(k) = d}

\* The hyphenated keys of f whose rewritten name is taken when they are
\* processed: by a key of f without a hyphen, or by a key rewritten before.
Collisions(f) ==
    {k \in DOMAIN f :
        /\ HasHyphen(k)
        /\ \/ Underscored(k) \in DOMAIN f
           \/ \E k0 \in Sources(f, Underscored(k)) : StrLess(k0, k)}

\* C10: keys without a hyphen stay; the value under a destination key is that
\* of the hyphenated key rewritten to it that comes last in key order (the
\* key's own value when there is none); the object loses one key per collision.
C10_CollisionLastWins ==
    PreprocessedObject =>
        /\ \A k \in DOMAIN arg.v : ~HasHyphen(k) => k \in DOMAIN ret.json.v
        /\ \A d \in DOMAIN ret.json.v :
              IF Sources(arg.v, d) = {} THEN ret.json.v[d] = arg.v[d]
              ELSE \E k \in Sources(arg.v, d) :
                      /\ \A k0 \in Sources(arg.v, d) \ {k} : StrLess(k0, k)
                      /\ ret.json.v[d] = arg.v[k]
        /\ Cardinality(DOMAIN ret.json.v)
              = Cardinality(DOMAIN arg.v) - Cardinality(Collisions(arg.v))

\* C10's case: two hyphenated keys and the underscore key they are rewritten
\* to; the later hyphenated key's value is what remains.
C10_Witness ==
    /\ PreprocessedObject
    /\ DOMAIN arg.v = {<<"-", "_">>, <<"_", "-">>, <<"_", "_">>}
    /\ DOMAIN ret.json.v = {<<"_", "_">>}
    /\ ret.json.v[<<"_", "_">>] = arg.v[<<"_", "-">>]

\* -------------------------------------------------------------- email.rs

Letters ==
    {"a", "b", "c", "d", "e", "f", "g", "h", "i", "j", "k", "l", "m",
     "n", "o", "p", "q", "r", "s", "t", "u", "v", "w", "x", "y", "z",
     "A", "B", "C", "D", "E", "F", "G", "H", "I", "J", "K", "L", "M",
     "N", "O", "P", "Q", "R", "S", "T", "U", "V", "W", "X", "Y", "Z"}
Digits == {"0", "1", "2", "3", "4", "5", "6", "7", "8", "9"}

\* The three character classes of email_address_re:
\* [a-zA-Z0-9_.+-]+ @ [a-zA-Z0-9-]+ \. [a-zA-Z0-9-.]+
LocalChars == Letters \cup Digits \cup {"_", ".", "+", "-"}
DomainChars == Letters \cup Digits \cup {"-"}
TailChars == Letters \cup Digits \cup {"-", "."}

\* Whether the whole of s matches email_address_re: some "@" at a and "." at d
\* split it into three non-empty runs of the three classes.
AddressMatches(s) ==
    \E a \in 1..Len(s), d \in 1..Len(s) :
        /\ 1 < a /\ a + 1 < d /\ d < Len(s)
        /\ s[a] = "@" /\ s[d] = "."
        /\ \A i \in 1..(a - 1) : s[i] \in LocalChars
        /\ \A i \in (a + 1)..(d - 1) : s[i] \in DomainChars
        /\ \A i \in (d + 1)..Len(s) : s[i] \in TailChars

\* email_with_name_re = (?P<name>[^<]+)<ADDRESS>$ searched in s (no anchor at
\* the start): s ends with ">", the "<" at j opens the address, and the name is
\* the longest run without "<" that ends just before j and is not empty: the
\* leftmost start from which [^<]+ reaches j.  No match: [ok |-> FALSE].
NameFormCaptures(s) ==
    LET opens == {j \in 2..(Len(s) - 1) :
                     /\ s[j] = "<" /\ s[j - 1] # "<" /\ s[Len(s)] = ">"
                     /\ AddressMatches(SubSeq(s, j + 1, Len(s) - 1))}
    IN IF opens = {} THEN [ok |-> FALSE]
       ELSE LET j == CHOOSE j \in opens : TRUE
                i == CHOOSE i \in 1..(j - 1) :
                        /\ \A x \in i..(j - 1) : s[x] # "<"
                        /\ (i = 1 \/ s[i - 1] = "<")
            IN [ok |-> TRUE, name |-> SubSeq(s, i, j - 1),
                address |-> SubSeq(s, j + 1, Len(s) - 1)]

\* libemail::Mailbox
Mailbox(name, address) == [name |-> name, address |-> address]

\* parse_email_address(email): the name form is searched in email.trim(), the
\* bare form (^ADDRESS$) in email itself.
parse_email_address(email) ==
    LET named == NameFormCaptures(Trim(email))
    IN IF named.ok THEN Ok(Mailbox(Some(Trim(named.name)), named.address))
       ELSE IF AddressMatches(email) THEN Ok(Mailbox(None, email))
       ELSE Err("Generic", "Invalid email: '{}'", email)

\* BufRead::read_line on text: the line read, its "\n" included, and what is
\* left of the text.
ReadLine(text) ==
    LET ends == {i \in 1..Len(text) : text[i] = "\n"}
        n == IF ends = {} THEN Len(text) ELSE CHOOSE i \in ends : \A j \in ends : i <= j
    IN [line |-> SubSeq(text, 1, n), rest |-> Drop(text, n + 1)]

\* EmailTemplate::new
EmailTemplate(subject, body) == [subject |-> subject, body |-> body]

\* EmailTemplate::new_from_file(path), the file given as whether File::open
\* succeeds and its text.
\* Variant: the second line checked before the subject.
new_from_file_delimiter_first(file) ==
    IF ~file.open THEN Err("Generic", "open", <<>>)
    ELSE LET first == ReadLine(file.text)
             second == ReadLine(first.rest)
         IN IF TrimRight(second.line, {"\r", "\n"}) # <<>>
            THEN Err("Generic", "The second line must be empty", <<>>)
            ELSE IF Trim(first.line) = <<>>
            THEN Err("Generic", "The first line must be a message Subject", <<>>)
            ELSE Ok(EmailTemplate(Trim(first.line), second.rest))

new_from_file(file) ==
    IF ~file.open THEN Err("Generic", "open", <<>>)
    ELSE LET first == ReadLine(file.text)
             second == ReadLine(first.rest)
         IN IF Trim(first.line) = <<>>
            THEN Err("Generic", "The first line must be a message Subject", <<>>)
            ELSE IF TrimRight(second.line, {"\r", "\n"}) # <<>>
            THEN Err("Generic", "The second line must be empty", <<>>)
            ELSE Ok(EmailTemplate(Trim(first.line), second.rest))

\* "{{" + key + "}}"
Placeholder(key) == <<"{", "{">> \o key \o <<"}", "}">>

\* render_template(template, params), the HashMap's entries visited in `order`:
\* each key's placeholder is replaced in the result of the replacements before.
RECURSIVE render_template(_, _, _)
render_template(template, params, order) ==
    IF order = <<>> THEN template
    ELSE render_template(Replace(template, Placeholder(Head(order)), params[Head(order)]),
                         params, Tail(order))

\* EmailTemplate::render(&self, params): both calls iterate the same HashMap,
\* in the same order.
render(self, params, order) ==
    Ok(<<render_template(self.subject, params, order),
         render_template(self.body, params, order)>>)

\* The orders a HashMap with the key set S may be iterated in: all of them (the
\* order follows the hasher's random seed).
Orders(S) == {o \in [1..Cardinality(S) -> S] : \A i, j \in 1..Cardinality(S) : o[i] = o[j] => i = j}

\* --------------------------------------------------- inputs of email.rs

\* The concatenation of a sequence of strings.
RECURSIVE Concat(_)
Concat(parts) == IF parts = <<>> THEN <<>> ELSE Head(parts) \o Concat(Tail(parts))

\* Address strings: at most MaxAddrParts of these pieces, concatenated.
MaxAddrParts == 4
AddrPieces ==
    {<<" ">>, <<"n">>, <<"@">>, <<".">>, <<"<">>, <<">">>, <<"j", "@", "e", ".", "c">>}

\* Template files: texts of at most MaxFile characters.
MaxFile == 5
FileChars == {"s", " ", "\r", "\n"}

\* Templates: a subject, and a body of at most MaxTplParts pieces; parameter
\* maps on any of the keys.
MaxTplParts == 2
TplPieces ==
    {Placeholder(<<"a">>), Placeholder(<<"b">>), <<"x">>, <<"{", "{">>, <<"}", "}">>}
Subjects == {<<>>, Placeholder(<<"a">>), <<"x">> \o Placeholder(<<"b">>)}
ParamKeys == {<<"a">>, <<"b">>, <<"{">>}
ParamValues == {<<>>, <<"x">>, Placeholder(<<"b">>), <<"{", "{">>}

\* ------------------------------------------------- the calls of email.rs

InitEmail ==
    /\ pc = "call"
    /\ ret = NoRet
    /\ \/ /\ op = "parse_email_address"
          /\ \E parts \in Strs(AddrPieces, MaxAddrParts) : arg = Concat(parts)
       \/ /\ op = "new_from_file"
          /\ \/ arg = [open |-> FALSE, text |-> <<>>]
             \/ \E text \in Strs(FileChars, MaxFile) : arg = [open |-> TRUE, text |-> text]
       \/ /\ op = "render"
          /\ \E subject \in Subjects, parts \in Strs(TplPieces, MaxTplParts), D \in SUBSET ParamKeys :
                \E params \in [D -> ParamValues] :
                    arg = [self |-> EmailTemplate(subject, Concat(parts)), params |-> params]

ParseEmailAddress ==
    pc = "call" /\ op = "parse_email_address" /\ Return(parse_email_address(arg))

NewFromFile == pc = "call" /\ op = "new_from_file" /\ Return(new_from_file(arg))

Render ==
    /\ pc = "call" /\ op = "render"
    /\ \E order \in Orders(DOMAIN arg.params) : Return(render(arg.self, arg.params, order))

NextEmail == ParseEmailAddress \/ NewFromFile \/ Render

SpecEmail == InitEmail /\ [][NextEmail]_vars

\* -------------------------------------------------- properties: email.rs

\* C5 as claimed: rendering never scans substituted text for placeholders: a
\* template that is exactly the placeholder of key k, whose value holds the
\* placeholder of another key of the mapping, renders as that value verbatim.
C5_Original ==
    Returned("render") =>
        \A k \in DOMAIN arg.params :
            (/\ arg.self.body = Placeholder(k)
             /\ \E k2 \in (DOMAIN arg.params) \ {k} :
                    Contains(arg.params[k], Placeholder(k2)))
            => ret.val[2] = arg.params[k]

\* No key of the mapping is a substring of another key's placeholder text.
NonOverlappingKeys(params) ==
    \A k1, k2 \in DOMAIN params : k1 # k2 => ~Contains(Placeholder(k2), k1)

\* C6 as claimed: with non-overlapping keys the rendered pair is the same for
\* every order in which the mapping's keys are replaced.
C6_Original ==
    (Returned("render") /\ NonOverlappingKeys(arg.params)) =>
        \A order \in Orders(DOMAIN arg.params) : render(arg.self, arg.params, order) = ret

\* C7 as claimed: the name form is tried first; failing that, the bare form on
\* the trimmed input, so that a valid address with whitespace around it is
\* accepted as a mailbox with no name; the error names the input verbatim.
C7_Original ==
    Returned("parse_email_address") =>
        IF NameFormCaptures(Trim(arg)).ok
        THEN ret.tag = "Ok" /\ ret.val.name.some
        ELSE IF AddressMatches(Trim(arg))
        THEN ret = Ok(Mailbox(None, Trim(arg)))
        ELSE ret = Err("Generic", "Invalid email: '{}'", arg)

\* The lines of a text, without their "\n": what lies between line ends.
LineEnds(text) == {i \in 1..Len(text) : text[i] = "\n"}

\* Line n of the text (n = 1, 2), empty when the text has no such line.
TextLine(text, n) ==
    LET e == LineEnds(text) \cup {0, Len(text) + 1}
        nth[i \in 0..n] ==
            IF i = 0 THEN 0
            ELSE IF nth[i - 1] > Len(text) THEN Len(text) + 1
            ELSE CHOOSE x \in e : x > nth[i - 1] /\ \A y \in e : y > nth[i - 1] => x <= y
    IN IF nth[n - 1] > Len(text) THEN <<>> ELSE SubSeq(text, nth[n - 1] + 1, nth[n] - 1)

\* The first line holds nothing but whitespace.
FirstLineBlank(text) == \A i \in 1..Len(TextLine(text, 1)) : TextLine(text, 1)[i] \in White

\* The second line holds something other than the "\r" of its line ending.
SecondLineNonEmpty(text) == \E i \in 1..Len(TextLine(text, 2)) : TextLine(text, 2)[i] # "\r"

FirstLineError == Err("Generic", "The first line must be a message Subject", <<>>)
SecondLineError == Err("Generic", "The second line must be empty", <<>>)

ReadTemplate == Returned("new_from_file") /\ arg.open

\* C8 as claimed: a file whose second line is non-empty fails with the second
\* line error whatever its first line, and a file whose first line is blank
\* fails with the first line error.
C8_Original ==
    ReadTemplate =>
        /\ SecondLineNonEmpty(arg.text) => ret = SecondLineError
        /\ FirstLineBlank(arg.text) => ret = FirstLineError

\* C8 amended: a file whose first line is blank fails with the first line
\* error, whatever its second line; a file whose first line is not blank and
\* whose second line is non-empty fails with the second line error.
C8_TemplateFileErrors ==
    ReadTemplate =>
        /\ FirstLineBlank(arg.text) => ret = FirstLineError
        /\ (~FirstLineBlank(arg.text) /\ SecondLineNonEmpty(arg.text)) => ret = SecondLineError

\* C8's case: a file with a blank first line and a non-empty second line has
\* been read.
C8_Witness ==
    /\ ReadTemplate
    /\ FirstLineBlank(arg.text)
    /\ SecondLineNonEmpty(arg.text)
    /\ ret = FirstLineError

====
